---- MODULE Spec2Model ----
(***************************************************************************)
(* Trip spawning of the traffic simulation (sim/src/make/spawner.rs):      *)
(* TripSpawner::schedule_trip validates and buffers travel intents,        *)
(* TripSpawner::finalize resolves their routes in a parallel map and then  *)
(* registers one trip and pushes one StartTrip command per buffered entry, *)
(* TripSpec::spawn_vehicle_at repairs a spawn position and                 *)
(* TripSpec::get_pathfinding_request derives the routing request.          *)
(*                                                                         *)
(* Distances are counted in whole multiples of EPSILON_DIST (geom trims    *)
(* every Distance to that precision), so EPSILON_DIST is 1 here and the    *)
(* vehicle lengths are small multiples of it.                              *)
(***************************************************************************)
EXTENDS Integers, Sequences, FiniteSets, TLC

VARIABLES
    pc,            \* "submit" | "resolving" | "spawning" | "done" | "panicked" | "spawn"
    trips,         \* TripSpawner.trips: Vec<(PersonID, Time, TripSpec)>
    call,          \* the last schedule_trip call: <<>> or <<[person, start_time, spec]>>
    drained,       \* the Vec moved out of self.trips by finalize
    results,       \* per drained entry: <<>> while its worker runs, else <<result>>
    reordered,     \* some worker finished before a worker of an earlier entry
    paths,         \* what is left of `paths` in finalize's for loop
    trip_manager,  \* TripManager: the trips registered by new_trip, in order
    scheduler,     \* Scheduler: the (time, command) pairs pushed, in order
    spawn_in,      \* the arguments of a spawn_vehicle_at call
    spawn_out      \* <<>> before the call returned, else <<its Option<Position>>>

vars == <<pc, trips, call, drained, results, reordered, paths, trip_manager,
          scheduler, spawn_in, spawn_out>>

(***************************************************************************)
(* Bounds and program constants                                            *)
(***************************************************************************)
MaxTrips == 2

EPSILON_DIST == 1

BIKE_LENGTH == 2

MAX_CAR_LENGTH == 3

\* Option<T>
None == <<>>

Some(x) == <<x>>

IsSome(o) == o # <<>>

Unwrap(o) == o[1]

(***************************************************************************)
(* The map: an immutable collaborator, here one small network              *)
(***************************************************************************)
Sidewalks == {"S1", "S2"}

DrivingLanes == {"D1", "D2", "D3", "D4"}

Lanes == Sidewalks \cup DrivingLanes

\* map.get_l(l).length()
LaneLength(l) ==
    CASE l = "S1" -> 4
      [] l = "S2" -> 4
      [] l = "D1" -> 4
      [] l = "D2" -> 3
      [] l = "D3" -> 2
      [] l = "D4" -> 6

\* map.get_l(l).src_i
LaneSrcI(l) ==
    CASE l \in {"S1", "D1", "D4"} -> "I1"
      [] l \in {"S2", "D2", "D3"} -> "I2"

Position(lane, dist_along) == [lane |-> lane, dist_along |-> dist_along]

Buildings == {"B1", "B2", "B3", "B4"}

\* map.get_b(b).sidewalk(): the sidewalk lane of the building's front path
BuildingSidewalk(b) ==
    CASE b = "B1" -> "S1"
      [] b = "B2" -> "S2"
      [] b = "B3" -> "S1"
      [] b = "B4" -> "S2"

\* map.get_b(b).front_path.sidewalk
BuildingSidewalkPos(b) ==
    CASE b = "B1" -> Position("S1", 1)
      [] b = "B2" -> Position("S2", 1)
      [] b = "B3" -> Position("S1", 3)
      [] b = "B4" -> Position("S2", 3)

\* SidewalkSpot::building
SidewalkSpotBuilding(b) ==
    [sidewalk_pos |-> BuildingSidewalkPos(b),
     connection |-> [kind |-> "Building", b |-> b]]

\* SidewalkSpot::bus_stop
SidewalkSpotBusStop(stop) ==
    [sidewalk_pos |-> IF stop = "ST1" THEN Position("S1", 2) ELSE Position("S2", 2),
     connection |-> [kind |-> "BusStop", stop |-> stop]]

\* SidewalkSpot::start_at_border / end_at_border
SidewalkSpotBorder(i) ==
    [sidewalk_pos |-> IF i = "I1" THEN Position("S1", 0) ELSE Position("S2", 0),
     connection |-> [kind |-> "Border", i |-> i]]

\* SidewalkSpot::suddenly_appear
SidewalkSpotSuddenlyAppear(pos) ==
    [sidewalk_pos |-> pos, connection |-> [kind |-> "SuddenlyAppear"]]

\* road.sidewalk_to_bike(sidewalk): the bike or driving lane next to a sidewalk
SidewalkToBike(sidewalk) == IF sidewalk = "S1" THEN Some("D1") ELSE None

\* road.bike_to_sidewalk(lane): the sidewalk next to a bike or driving lane
BikeToSidewalk(lane) == IF lane = "D1" THEN Some("S1") ELSE None

\* SidewalkSpot::bike_from_bike_rack
BikeFromBikeRack(sidewalk) ==
    IF IsSome(SidewalkToBike(sidewalk))
    THEN Some([sidewalk_pos |-> Position(sidewalk, LaneLength(sidewalk) \div 2),
               connection |-> [kind |-> "BikeRack",
                               pos |-> Position(Unwrap(SidewalkToBike(sidewalk)), 0)]])
    ELSE None

\* SidewalkSpot::deferred_parking_spot
DeferredParkingSpot(start_bldg, goal) ==
    [sidewalk_pos |-> BuildingSidewalkPos(start_bldg),
     connection |-> [kind |-> "DeferredParkingSpot", b |-> start_bldg, goal |-> goal]]

\* VehicleType::to_constraints
ToConstraints(vehicle_type) == IF vehicle_type = "Car" THEN "Car" ELSE "Bike"

\* Position::bldg_via_driving / bldg_via_biking: where a vehicle stops for a building
BldgVia(b, constraints) ==
    IF constraints = "Bike"
    THEN (CASE b = "B1" -> Position("D1", 1)
            [] b = "B2" -> Position("D1", 2)
            [] b = "B3" -> Position("D2", 1)
            [] b = "B4" -> Position("D2", 2))
    ELSE (CASE b = "B1" -> Position("D1", 1)
            [] b = "B2" -> Position("D4", 2)
            [] b = "B3" -> Position("D1", 3)
            [] b = "B4" -> Position("D1", 2))

\* DrivingGoal::goal_pos
GoalPos(goal, constraints) ==
    IF goal.kind = "ParkNear"
    THEN BldgVia(goal.b, constraints)
    ELSE Position(goal.lane, LaneLength(goal.lane))

\* map.pathfind finds a route: the network has none on foot from sidewalk S2 to
\* S1, none for a bike to lane D2 and none for a car to lane D4
HasRoute(req) ==
    CASE req.constraints = "Pedestrian" ->
            ~(req.start.lane = "S2" /\ req.end.lane = "S1")
      [] req.constraints = "Bike" -> req.end.lane # "D2"
      [] req.constraints = "Car" -> req.end.lane # "D4"

Pathfind(req) ==
    IF HasRoute(req)
    THEN Some([start |-> req.start, end |-> req.end, constraints |-> req.constraints])
    ELSE None

(***************************************************************************)
(* The people of the trip manager                                          *)
(***************************************************************************)
PersonIDs == {"P1", "P2"}

\* TripManager::get_person: P1 owns a car and a bike, P2 owns no vehicle
GetPerson(p) ==
    CASE p = "P1" -> Some([id |-> "P1", ped |-> "ped1",
                           car |-> Some("car1"), bike |-> Some("bike1")])
      [] p = "P2" -> Some([id |-> "P2", ped |-> "ped2", car |-> None, bike |-> None])
      [] OTHER -> None

\* VehicleSpec::make
Make(vehicle_spec, id, owner) ==
    [id |-> id, owner |-> owner,
     vehicle_type |-> vehicle_spec.vehicle_type, length |-> vehicle_spec.length]

(***************************************************************************)
(* TripSpec::spawn_vehicle_at                                              *)
(***************************************************************************)
\* the position at the lane's end returned as it is
spawn_vehicle_at_no_epsilon(pos, is_bike) ==
    LET lane_len == LaneLength(pos.lane)
        vehicle_len == IF is_bike THEN BIKE_LENGTH ELSE MAX_CAR_LENGTH
    IN  IF lane_len <= vehicle_len
        THEN None
        ELSE IF pos.dist_along < vehicle_len
        THEN Some(Position(pos.lane, vehicle_len))
        ELSE Some(pos)

spawn_vehicle_at(pos, is_bike) ==
    LET lane_len == LaneLength(pos.lane)
        vehicle_len == IF is_bike THEN BIKE_LENGTH ELSE MAX_CAR_LENGTH
    IN  IF lane_len <= vehicle_len
        THEN None
        ELSE IF pos.dist_along < vehicle_len
        THEN Some(Position(pos.lane, vehicle_len))
        ELSE IF pos.dist_along = lane_len
        THEN Some(Position(pos.lane, pos.dist_along - EPSILON_DIST))
        ELSE Some(pos)

(***************************************************************************)
(* TripSpec::get_pathfinding_request                                       *)
(***************************************************************************)
\* the unwrap() of bike_from_bike_rack fails
get_pathfinding_request_panics(spec) ==
    /\ spec.kind = "UsingBike"
    /\ ~IsSome(BikeFromBikeRack(spec.start.sidewalk_pos.lane))

\* the UsingBike arm asking for a bike route to the goal
get_pathfinding_request_bike_to_goal(spec) ==
    CASE spec.kind = "CarAppearing" ->
            LET constraints == ToConstraints(spec.vehicle_spec.vehicle_type)
            IN  Some([start |-> spec.start_pos,
                      end |-> GoalPos(spec.goal, constraints),
                      constraints |-> constraints])
      [] spec.kind = "UsingParkedCar" -> None
      [] spec.kind = "JustWalking" ->
            Some([start |-> spec.start.sidewalk_pos,
                  end |-> spec.goal.sidewalk_pos,
                  constraints |-> "Pedestrian"])
      [] spec.kind = "UsingBike" ->
            Some([start |-> spec.start.sidewalk_pos,
                  end |-> GoalPos(spec.goal, "Bike"),
                  constraints |-> "Bike"])
      [] spec.kind = "UsingTransit" ->
            Some([start |-> spec.start.sidewalk_pos,
                  end |-> SidewalkSpotBusStop(spec.stop1).sidewalk_pos,
                  constraints |-> "Pedestrian"])

get_pathfinding_request(spec) ==
    CASE spec.kind = "CarAppearing" ->
            LET constraints == ToConstraints(spec.vehicle_spec.vehicle_type)
            IN  Some([start |-> spec.start_pos,
                      end |-> GoalPos(spec.goal, constraints),
                      constraints |-> constraints])
      [] spec.kind = "UsingParkedCar" -> None
      [] spec.kind = "JustWalking" ->
            Some([start |-> spec.start.sidewalk_pos,
                  end |-> spec.goal.sidewalk_pos,
                  constraints |-> "Pedestrian"])
      [] spec.kind = "UsingBike" ->
            Some([start |-> spec.start.sidewalk_pos,
                  end |-> Unwrap(BikeFromBikeRack(spec.start.sidewalk_pos.lane)).sidewalk_pos,
                  constraints |-> "Pedestrian"])
      [] spec.kind = "UsingTransit" ->
            Some([start |-> spec.start.sidewalk_pos,
                  end |-> SidewalkSpotBusStop(spec.stop1).sidewalk_pos,
                  constraints |-> "Pedestrian"])

(***************************************************************************)
(* TripSpawner::schedule_trip                                              *)
(***************************************************************************)
\* the second check written with > in place of >=
CarAppearingPanicsLenient(spec) ==
    \/ spec.start_pos.dist_along < spec.vehicle_spec.length
    \/ spec.start_pos.dist_along > LaneLength(spec.start_pos.lane)
    \/ /\ spec.goal.kind = "Border"
       /\ spec.start_pos.lane = spec.goal.lane
       /\ spec.start_pos.dist_along = LaneLength(spec.goal.lane)

\* the three panics of the CarAppearing arm
CarAppearingPanics(spec) ==
    \/ spec.start_pos.dist_along < spec.vehicle_spec.length
    \/ spec.start_pos.dist_along >= LaneLength(spec.start_pos.lane)
    \/ /\ spec.goal.kind = "Border"
       /\ spec.start_pos.lane = spec.goal.lane
       /\ spec.start_pos.dist_along = LaneLength(spec.goal.lane)

\* the JustWalking arm without its check
JustWalkingNeverPanics(spec) == FALSE

\* the panic of the JustWalking arm
JustWalkingPanics(spec) == spec.start = spec.goal

schedule_trip_panics(spec) ==
    CASE spec.kind = "CarAppearing" -> CarAppearingPanics(spec)
      [] spec.kind = "JustWalking" -> JustWalkingPanics(spec)
      [] OTHER -> FALSE

\* the UsingBike arm without its first check
NoBikeNearbyIgnored(spec) == FALSE

\* first early return of the UsingBike arm
NoBikeNearby(spec) == ~IsSome(BikeFromBikeRack(spec.start.sidewalk_pos.lane))

\* the second early return never taken
NoSidewalkNearGoalIgnored(spec) == FALSE

\* second early return of the UsingBike arm
NoSidewalkNearGoal(spec) ==
    /\ spec.goal.kind = "ParkNear"
    /\ LET last_lane == GoalPos(spec.goal, "Bike").lane
       IN  ~IsSome(BikeToSidewalk(last_lane))

\* "A bike trip going from one lane to the same lane should... just walk."
SameSidewalk(spec) ==
    /\ spec.goal.kind = "ParkNear"
    /\ spec.start.sidewalk_pos.lane = BuildingSidewalk(spec.goal.b)

\* the walk starting at the building instead of the original start
JustWalkInsteadFromBuilding(spec) ==
    [kind |-> "JustWalking",
     start |-> SidewalkSpotBuilding(spec.goal.b),
     goal |-> SidewalkSpotBuilding(spec.goal.b),
     ped_speed |-> spec.ped_speed]

\* the JustWalking spec pushed in place of the bike trip
JustWalkInstead(spec) ==
    [kind |-> "JustWalking",
     start |-> spec.start,
     goal |-> SidewalkSpotBuilding(spec.goal.b),
     ped_speed |-> spec.ped_speed]

\* the rewrite to a walk falling through to the push of the original intent
schedule_trip_pushes_falls_through(person, start_time, spec) ==
    IF spec.kind = "UsingBike"
    THEN IF NoBikeNearby(spec)
         THEN <<>>
         ELSE IF NoSidewalkNearGoal(spec)
         THEN <<>>
         ELSE IF SameSidewalk(spec)
         THEN <<[person |-> person, start_time |-> start_time,
                 spec |-> JustWalkInstead(spec)],
                [person |-> person, start_time |-> start_time, spec |-> spec]>>
         ELSE <<[person |-> person, start_time |-> start_time, spec |-> spec]>>
    ELSE <<[person |-> person, start_time |-> start_time, spec |-> spec]>>

\* what one call that does not panic appends to self.trips
schedule_trip_pushes(person, start_time, spec) ==
    IF spec.kind = "UsingBike"
    THEN IF NoBikeNearby(spec)
         THEN <<>>
         ELSE IF NoSidewalkNearGoal(spec)
         THEN <<>>
         ELSE IF SameSidewalk(spec)
         THEN <<[person |-> person, start_time |-> start_time,
                 spec |-> JustWalkInstead(spec)]>>
         ELSE <<[person |-> person, start_time |-> start_time, spec |-> spec]>>
    ELSE <<[person |-> person, start_time |-> start_time, spec |-> spec]>>

(***************************************************************************)
(* TripSpawner::finalize: the parallel map and the expansion of one entry  *)
(***************************************************************************)
\* the closure forgetting the request when no route is found
PathWorkerDropsRequest(tuple) ==
    LET req == get_pathfinding_request(tuple.spec)
        path == IF IsSome(req) THEN Pathfind(Unwrap(req)) ELSE None
    IN  [tuple |-> tuple,
         req |-> IF IsSome(path) THEN req ELSE None,
         path |-> path]

\* the closure routing the walk to the goal building when there is no request
PathWorkerRoutesWithoutRequest(tuple) ==
    LET req == get_pathfinding_request(tuple.spec)
    IN  [tuple |-> tuple,
         req |-> req,
         path |-> IF IsSome(req)
                  THEN Pathfind(Unwrap(req))
                  ELSE Pathfind([start |-> BuildingSidewalkPos(tuple.spec.start_bldg),
                                 end |-> BuildingSidewalkPos(tuple.spec.goal.b),
                                 constraints |-> "Pedestrian"])]

\* the closure given to timer.parallelize
PathWorker(tuple) ==
    LET req == get_pathfinding_request(tuple.spec)
    IN  [tuple |-> tuple,
         req |-> req,
         path |-> IF IsSome(req) THEN Pathfind(Unwrap(req)) ELSE None]

\* the `_ => unreachable!()` arm of the three matches on start.connection
StartUnreachable(start) ==
    start.connection.kind \notin {"Building", "SuddenlyAppear", "Border"}

\* every start taken as a border at the source of its lane
StartEndpointAtLaneSource(start) ==
    [kind |-> "Border", i |-> LaneSrcI(start.sidewalk_pos.lane)]

\* the TripEndpoint matched from start.connection
StartEndpoint(start) ==
    CASE start.connection.kind = "Building" ->
            [kind |-> "Bldg", b |-> start.connection.b]
      [] start.connection.kind = "SuddenlyAppear" ->
            [kind |-> "Border", i |-> LaneSrcI(start.sidewalk_pos.lane)]
      [] start.connection.kind = "Border" ->
            [kind |-> "Border", i |-> start.connection.i]

Walk(ped, speed, spot) == [kind |-> "Walk", ped |-> ped, speed |-> speed, spot |-> spot]

Drive(vehicle, goal) == [kind |-> "Drive", vehicle |-> vehicle, goal |-> goal]

RideBus(ped, route, stop) == [kind |-> "RideBus", ped |-> ped, route |-> route, stop |-> stop]

\* an unwrap() or unreachable!() of the loop body fails for this entry
ExpandPanics(p, spec) ==
    \/ ~IsSome(GetPerson(p))
    \/ LET person == Unwrap(GetPerson(p))
       IN  CASE spec.kind = "CarAppearing" ->
                    IF spec.vehicle_spec.vehicle_type = "Car"
                    THEN ~IsSome(person.car)
                    ELSE ~IsSome(person.bike)
             [] spec.kind = "UsingParkedCar" -> FALSE
             [] spec.kind = "JustWalking" -> StartUnreachable(spec.start)
             [] spec.kind = "UsingBike" ->
                    \/ ~IsSome(BikeFromBikeRack(spec.start.sidewalk_pos.lane))
                    \/ ~IsSome(person.bike)
                    \/ StartUnreachable(spec.start)
             [] spec.kind = "UsingTransit" -> StartUnreachable(spec.start)

\* the CarAppearing arm never adding the walk to the building
CarAppearingLegsNoWalk(person, spec) ==
    LET vehicle == IF spec.vehicle_spec.vehicle_type = "Car"
                   THEN Make(spec.vehicle_spec, Unwrap(person.car), Some(person.id))
                   ELSE Make(spec.vehicle_spec, Unwrap(person.bike), Some(person.id))
    IN  <<Drive(vehicle, spec.goal)>>

\* the legs of the CarAppearing arm
CarAppearingLegs(person, spec) ==
    LET vehicle == IF spec.vehicle_spec.vehicle_type = "Car"
                   THEN Make(spec.vehicle_spec, Unwrap(person.car), Some(person.id))
                   ELSE Make(spec.vehicle_spec, Unwrap(person.bike), Some(person.id))
    IN  <<Drive(vehicle, spec.goal)>> \o
        (IF spec.goal.kind = "ParkNear"
         THEN <<Walk(person.ped, spec.ped_speed, SidewalkSpotBuilding(spec.goal.b))>>
         ELSE <<>>)

\* the UsingBike arm never adding the walk to the building
UsingBikeLegsNoFinalWalk(person, spec) ==
    LET walk_to == Unwrap(BikeFromBikeRack(spec.start.sidewalk_pos.lane))
    IN  <<Walk(person.ped, spec.ped_speed, walk_to),
          Drive(Make(spec.vehicle, Unwrap(person.bike), None), spec.goal)>>

\* the legs of the UsingBike arm
UsingBikeLegs(person, spec) ==
    LET walk_to == Unwrap(BikeFromBikeRack(spec.start.sidewalk_pos.lane))
    IN  <<Walk(person.ped, spec.ped_speed, walk_to),
          Drive(Make(spec.vehicle, Unwrap(person.bike), None), spec.goal)>> \o
        (IF spec.goal.kind = "ParkNear"
         THEN <<Walk(person.ped, spec.ped_speed, SidewalkSpotBuilding(spec.goal.b))>>
         ELSE <<>>)

\* the bus ridden to the boarding stop
UsingTransitLegsStop1(person, spec) ==
    LET walk_to == SidewalkSpotBusStop(spec.stop1)
    IN  <<Walk(person.ped, spec.ped_speed, walk_to),
          RideBus(person.ped, spec.route, spec.stop1),
          Walk(person.ped, spec.ped_speed, spec.goal)>>

\* the legs of the UsingTransit arm
UsingTransitLegs(person, spec) ==
    LET walk_to == SidewalkSpotBusStop(spec.stop1)
    IN  <<Walk(person.ped, spec.ped_speed, walk_to),
          RideBus(person.ped, spec.route, spec.stop2),
          Walk(person.ped, spec.ped_speed, spec.goal)>>

\* the legs handed to new_trip
ExpandLegs(person, spec) ==
    CASE spec.kind = "CarAppearing" -> CarAppearingLegs(person, spec)
      [] spec.kind = "UsingParkedCar" ->
            <<Walk(person.ped, spec.ped_speed,
                   DeferredParkingSpot(spec.start_bldg, spec.goal))>>
      [] spec.kind = "JustWalking" -> <<Walk(person.ped, spec.ped_speed, spec.goal)>>
      [] spec.kind = "UsingBike" -> UsingBikeLegs(person, spec)
      [] spec.kind = "UsingTransit" -> UsingTransitLegs(person, spec)

\* the TripEndpoint handed to new_trip
ExpandStart(spec) ==
    CASE spec.kind = "CarAppearing" ->
            [kind |-> "Border", i |-> LaneSrcI(spec.start_pos.lane)]
      [] spec.kind = "UsingParkedCar" -> [kind |-> "Bldg", b |-> spec.start_bldg]
      [] OTHER -> StartEndpoint(spec.start)

\* TripManager::new_trip: the id of a trip is its index
new_trip(tm, person, start_time, start, legs) ==
    Append(tm, [id |-> Len(tm), person |-> person, start_time |-> start_time,
                start |-> start, legs |-> legs])

\* Command::StartTrip
StartTrip(trip, spec, maybe_req, maybe_path) ==
    [kind |-> "StartTrip", trip |-> trip, spec |-> spec,
     maybe_req |-> maybe_req, maybe_path |-> maybe_path]

\* Scheduler::push
push(sched, time, cmd) == Append(sched, [time |-> time, cmd |-> cmd])

(***************************************************************************)
(* The intents callers submit                                              *)
(***************************************************************************)
Times == {0, 1}

PedSpeeds == {1}

CarSpec == [vehicle_type |-> "Car", length |-> MAX_CAR_LENGTH]

BikeSpec == [vehicle_type |-> "Bike", length |-> BIKE_LENGTH]

Border(i, lane) == [kind |-> "Border", i |-> i, lane |-> lane]

ParkNear(b) == [kind |-> "ParkNear", b |-> b]

CarAppearingSpecs ==
    {[kind |-> "CarAppearing", start_pos |-> Position("D1", d), goal |-> g,
      vehicle_spec |-> v, ped_speed |-> s] :
        d \in 0..LaneLength("D1"), g \in {Border("I2", "D1"), ParkNear("B2")},
        v \in {CarSpec, BikeSpec}, s \in PedSpeeds}

UsingParkedCarSpecs ==
    {[kind |-> "UsingParkedCar", start_bldg |-> "B1", goal |-> ParkNear("B2"),
      ped_speed |-> s] : s \in PedSpeeds}

JustWalkingSpecs ==
    {[kind |-> "JustWalking", start |-> a, goal |-> SidewalkSpotBuilding("B1"),
      ped_speed |-> s] :
        a \in {SidewalkSpotBuilding("B1"), SidewalkSpotBuilding("B2"),
               SidewalkSpotBusStop("ST2")},
        s \in PedSpeeds}

\* someone appearing on sidewalk S1 bikes to each kind of goal, the people of
\* buildings B1 and B2 bike to a parking place near their own building, and
\* someone of B2, whose sidewalk has no bike-access point, bikes out of the map
UsingBikeSpecs ==
    {[kind |-> "UsingBike", start |-> SidewalkSpotSuddenlyAppear(Position("S1", 3)),
      goal |-> g, vehicle |-> BikeSpec, ped_speed |-> s] :
        g \in {Border("I2", "D1"), ParkNear("B1"), ParkNear("B2"), ParkNear("B3"),
               ParkNear("B4")},
        s \in PedSpeeds}
    \cup
    {[kind |-> "UsingBike", start |-> SidewalkSpotBuilding(b),
      goal |-> ParkNear(b), vehicle |-> BikeSpec, ped_speed |-> s] :
        b \in {"B1", "B2"}, s \in PedSpeeds}
    \cup
    {[kind |-> "UsingBike", start |-> SidewalkSpotBuilding("B2"),
      goal |-> Border("I2", "D1"), vehicle |-> BikeSpec, ped_speed |-> s] :
        s \in PedSpeeds}

UsingTransitSpecs ==
    {[kind |-> "UsingTransit", start |-> a, goal |-> SidewalkSpotBuilding("B1"),
      route |-> "R1", stop1 |-> "ST1", stop2 |-> "ST2", ped_speed |-> s] :
        a \in {SidewalkSpotBorder("I1"), SidewalkSpotBusStop("ST2")},
        s \in PedSpeeds}

TripSpecs ==
    CarAppearingSpecs \cup UsingParkedCarSpecs \cup JustWalkingSpecs
        \cup UsingBikeSpecs \cup UsingTransitSpecs

(***************************************************************************)
(* Actions                                                                 *)
(***************************************************************************)
Init ==
    /\ pc = "submit"
    /\ trips = <<>>
    /\ call = None
    /\ drained = <<>>
    /\ results = <<>>
    /\ reordered = FALSE
    /\ paths = <<>>
    /\ trip_manager = <<>>
    /\ scheduler = <<>>
    /\ spawn_in = None
    /\ spawn_out = None

\* TripSpawner::schedule_trip
schedule_trip(person, start_time, spec) ==
    /\ Len(trips) < MaxTrips
    /\ call' = Some([person |-> person, start_time |-> start_time, spec |-> spec])
    /\ IF schedule_trip_panics(spec)
       THEN pc' = "panicked" /\ trips' = trips
       ELSE pc' = pc /\ trips' = trips \o schedule_trip_pushes(person, start_time, spec)
    /\ UNCHANGED <<drained, results, reordered, paths, trip_manager, scheduler,
                   spawn_in, spawn_out>>

\* who submits and for when: P1 for both start times, and P2, the person
\* without vehicles, for the first
Callers == {c \in PersonIDs \X Times : c[1] = "P1" \/ c[2] = 0}

ScheduleTrip ==
    /\ pc = "submit"
    /\ \E c \in Callers, spec \in TripSpecs : schedule_trip(c[1], c[2], spec)

\* finalize cloning the buffer instead of moving it out
StartFinalizeKeepsBuffer ==
    /\ pc = "submit"
    /\ drained' = trips
    /\ trips' = trips
    /\ results' = [i \in 1..Len(trips) |-> None]
    /\ reordered' = FALSE
    /\ call' = None
    /\ pc' = "resolving"
    /\ UNCHANGED <<paths, trip_manager, scheduler, spawn_in, spawn_out>>

\* finalize, up to the start of the parallel map: the buffer is moved out
StartFinalize ==
    /\ pc = "submit"
    /\ drained' = trips
    /\ trips' = <<>>
    /\ results' = [i \in 1..Len(trips) |-> None]
    /\ reordered' = FALSE
    /\ call' = None
    /\ pc' = "resolving"
    /\ UNCHANGED <<paths, trip_manager, scheduler, spawn_in, spawn_out>>

\* the closure pushing the command of its entry itself
WorkerSpawns(i) ==
    /\ pc = "resolving"
    /\ results[i] = None
    /\ results' = [results EXCEPT ![i] = Some(PathWorker(drained[i]))]
    /\ reordered' = (reordered \/ \E j \in DOMAIN results : j > i /\ results[j] # None)
    /\ pc' = pc
    /\ scheduler' = push(scheduler, drained[i].start_time,
                         StartTrip(Len(trip_manager), drained[i].spec,
                                   PathWorker(drained[i]).req, PathWorker(drained[i]).path))
    /\ UNCHANGED <<trips, call, drained, paths, trip_manager, spawn_in, spawn_out>>

\* one worker of timer.parallelize runs the closure on entry i
Worker(i) ==
    /\ pc = "resolving"
    /\ results[i] = None
    /\ IF get_pathfinding_request_panics(drained[i].spec)
       THEN pc' = "panicked" /\ UNCHANGED <<results, reordered>>
       ELSE /\ results' = [results EXCEPT ![i] = Some(PathWorker(drained[i]))]
            /\ reordered' = (reordered \/ \E j \in DOMAIN results : j > i /\ results[j] # None)
            /\ pc' = pc
    /\ UNCHANGED <<trips, call, drained, paths, trip_manager, scheduler,
                   spawn_in, spawn_out>>

\* timer.parallelize returns the results in the order of its input
Collect ==
    /\ pc = "resolving"
    /\ \A i \in DOMAIN results : results[i] # None
    /\ paths' = [i \in DOMAIN results |-> Unwrap(results[i])]
    /\ results' = <<>>
    /\ pc' = IF Len(results) = 0 THEN "done" ELSE "spawning"
    /\ UNCHANGED <<trips, call, drained, reordered, trip_manager, scheduler,
                   spawn_in, spawn_out>>

\* every iteration using the start time of the first entry of the batch
SpawnIterationFirstTime(item, rest) ==
    LET p == item.tuple.person
        start_time == drained[1].start_time
        spec == item.tuple.spec
    IN  IF ExpandPanics(p, spec)
        THEN pc' = "panicked" /\ UNCHANGED <<paths, trip_manager, scheduler>>
        ELSE LET person == Unwrap(GetPerson(p))
                 trip == Len(trip_manager)
             IN  /\ trip_manager' = new_trip(trip_manager, person.id, start_time,
                                             ExpandStart(spec), ExpandLegs(person, spec))
                 /\ scheduler' = push(scheduler, start_time,
                                      StartTrip(trip, spec, item.req, item.path))
                 /\ paths' = rest
                 /\ pc' = IF rest = <<>> THEN "done" ELSE "spawning"

\* one iteration of `for ((p, start_time, spec), maybe_req, maybe_path) in paths`
SpawnIteration(item, rest) ==
    LET p == item.tuple.person
        start_time == item.tuple.start_time
        spec == item.tuple.spec
    IN  IF ExpandPanics(p, spec)
        THEN pc' = "panicked" /\ UNCHANGED <<paths, trip_manager, scheduler>>
        ELSE LET person == Unwrap(GetPerson(p))
                 trip == Len(trip_manager)
             IN  /\ trip_manager' = new_trip(trip_manager, person.id, start_time,
                                             ExpandStart(spec), ExpandLegs(person, spec))
                 /\ scheduler' = push(scheduler, start_time,
                                      StartTrip(trip, spec, item.req, item.path))
                 /\ paths' = rest
                 /\ pc' = IF rest = <<>> THEN "done" ELSE "spawning"

\* the loop taking the entries from the back
SpawnStepLastFirst ==
    /\ pc = "spawning"
    /\ paths # <<>>
    /\ SpawnIteration(paths[Len(paths)], SubSeq(paths, 1, Len(paths) - 1))
    /\ UNCHANGED <<trips, call, drained, results, reordered, spawn_in, spawn_out>>

SpawnStep ==
    /\ pc = "spawning"
    /\ paths # <<>>
    /\ SpawnIteration(Head(paths), Tail(paths))
    /\ UNCHANGED <<trips, call, drained, results, reordered, spawn_in, spawn_out>>

Next ==
    \/ ScheduleTrip
    \/ StartFinalize
    \/ \E i \in DOMAIN results : Worker(i)
    \/ Collect
    \/ SpawnStep

Spec == Init /\ [][Next]_vars

(***************************************************************************)
(* Interactive spawning: a caller repairs a position with spawn_vehicle_at *)
(* and submits a CarAppearing intent at the repaired position              *)
(***************************************************************************)
\* every position of every lane, for a bike and for a car
SpawnInputs ==
    UNION {{[pos |-> Position(l, d), is_bike |-> b] :
                d \in 0..LaneLength(l), b \in BOOLEAN} : l \in Lanes}

InitSpawn ==
    /\ pc = "spawn"
    /\ trips = <<>>
    /\ call = None
    /\ drained = <<>>
    /\ results = <<>>
    /\ reordered = FALSE
    /\ paths = <<>>
    /\ trip_manager = <<>>
    /\ scheduler = <<>>
    /\ \E in \in SpawnInputs : spawn_in = Some(in)
    /\ spawn_out = None

SpawnVehicleAt ==
    /\ pc = "spawn"
    /\ spawn_out = None
    /\ spawn_out' = Some(spawn_vehicle_at(Unwrap(spawn_in).pos, Unwrap(spawn_in).is_bike))
    /\ UNCHANGED <<pc, trips, call, drained, results, reordered, paths, trip_manager,
                   scheduler, spawn_in>>

ScheduleSpawned ==
    /\ pc = "spawn"
    /\ spawn_out # None
    /\ IsSome(Unwrap(spawn_out))
    /\ \E person \in PersonIDs, start_time \in Times,
          goal \in {Border("I2", Unwrap(spawn_in).pos.lane), ParkNear("B2")},
          ped_speed \in PedSpeeds :
            schedule_trip(person, start_time,
                [kind |-> "CarAppearing",
                 start_pos |-> Unwrap(Unwrap(spawn_out)),
                 goal |-> goal,
                 vehicle_spec |-> IF Unwrap(spawn_in).is_bike THEN BikeSpec ELSE CarSpec,
                 ped_speed |-> ped_speed])

NextSpawn ==
    \/ SpawnVehicleAt
    \/ ScheduleSpawned

SpecSpawn == InitSpawn /\ [][NextSpawn]_vars

(***************************************************************************)
(* Properties                                                              *)
(***************************************************************************)
\* a step of schedule_trip: while intents are submitted, the steps that leave a
\* call recorded (finalize clears the record, spawn_vehicle_at precedes any call)
CallStep == pc \in {"submit", "spawn"} /\ call' # None

\* the request and the route the network gives for a spec
RequestOf(spec) == get_pathfinding_request(spec)

RouteOf(spec) == IF IsSome(RequestOf(spec)) THEN Pathfind(Unwrap(RequestOf(spec))) ELSE None

\* C1: finalize registers the trips and pushes the StartTrip commands in the
\* order the intents were buffered, whatever the order in which the
\* route-resolution workers complete: the k-th trip id and the k-th push belong
\* to the k-th drained entry, and a finalize that returns has pushed them all.
C1_SubmissionOrderKept ==
    /\ Len(trip_manager) = Len(scheduler)
    /\ Len(scheduler) <= Len(drained)
    /\ \A k \in 1..Len(scheduler) :
          /\ trip_manager[k].id = k - 1
          /\ trip_manager[k].person = drained[k].person
          /\ trip_manager[k].start_time = drained[k].start_time
          /\ scheduler[k].time = drained[k].start_time
          /\ scheduler[k].cmd.trip = k - 1
          /\ scheduler[k].cmd.spec = drained[k].spec
    /\ pc = "done" => Len(scheduler) = Len(drained)

\* two entries of different kinds, people and times were resolved out of order
\* and both were pushed
C1_Witness ==
    /\ pc = "done"
    /\ reordered
    /\ Len(scheduler) = 2
    /\ drained[1].spec.kind # drained[2].spec.kind
    /\ drained[1].person # drained[2].person
    /\ drained[1].start_time > drained[2].start_time

\* C2: a drained entry whose request is present and for which pathfinding finds
\* no route is not dropped: when finalize returns it has its trip and its one
\* command, and the command carries the request as present and the path as None.
C2_NoRouteCarried ==
    \A k \in DOMAIN drained :
        (IsSome(RequestOf(drained[k].spec)) /\ RouteOf(drained[k].spec) = None) =>
            /\ pc = "done" =>
                  /\ k \in DOMAIN trip_manager
                  /\ Cardinality({j \in DOMAIN scheduler :
                                      scheduler[j].cmd.trip = trip_manager[k].id}) = 1
            /\ k \in DOMAIN scheduler =>
                  /\ scheduler[k].cmd.spec = drained[k].spec
                  /\ scheduler[k].cmd.maybe_req = RequestOf(drained[k].spec)
                  /\ IsSome(scheduler[k].cmd.maybe_req)
                  /\ scheduler[k].cmd.maybe_path = None

\* finalize returned and pushed a command with a request and no path
C2_Witness ==
    /\ pc = "done"
    /\ \E k \in DOMAIN scheduler :
          /\ IsSome(scheduler[k].cmd.maybe_req)
          /\ scheduler[k].cmd.maybe_path = None

\* C3: a finalize that returns has consumed every buffered entry exactly once:
\* n drained entries give n trips and n commands, one per entry, and the buffer
\* of the spawner is empty from the moment finalize has taken it.
C3_BufferConsumedOnce ==
    /\ pc \in {"resolving", "spawning", "done"} => trips = <<>>
    /\ pc = "done" =>
          /\ Len(trip_manager) = Len(drained)
          /\ Len(scheduler) = Len(drained)
          /\ \A k \in DOMAIN drained :
                /\ scheduler[k].cmd.spec = drained[k].spec
                /\ scheduler[k].cmd.trip = trip_manager[k].id
          /\ \A j, k \in DOMAIN trip_manager :
                j # k => trip_manager[j].id # trip_manager[k].id

\* finalize returned after taking a buffer of two entries
C3_Witness ==
    /\ pc = "done"
    /\ Len(drained) = 2
    /\ Len(scheduler) = 2

\* the feasibility rule of a CarAppearing spawn
CarFits(spec) ==
    /\ spec.vehicle_spec.length <= spec.start_pos.dist_along
    /\ spec.start_pos.dist_along < LaneLength(spec.start_pos.lane)

\* C4: every CarAppearing intent in the buffer has
\* vehicle_spec.length <= dist_along < lane length, and a schedule_trip call
\* with a CarAppearing intent breaking either bound panics and leaves the
\* buffer as it was.
C4_CarAppearingFits ==
    /\ [](\A k \in DOMAIN trips :
              trips[k].spec.kind = "CarAppearing" => CarFits(trips[k].spec))
    /\ [][(/\ CallStep
           /\ Unwrap(call').spec.kind = "CarAppearing"
           /\ ~CarFits(Unwrap(call').spec))
          => (pc' = "panicked" /\ trips' = trips)]_vars

\* a car was buffered, then a call with a car at the very end of its lane panicked
C4_Witness ==
    /\ pc = "panicked"
    /\ call # None
    /\ Unwrap(call).spec.kind = "CarAppearing"
    /\ Unwrap(call).spec.start_pos.dist_along = LaneLength(Unwrap(call).spec.start_pos.lane)
    /\ Len(trips) = 1
    /\ trips[1].spec.kind = "CarAppearing"

\* C5: for a position with 0 <= dist_along <= lane length, spawn_vehicle_at
\* returns None or a position on the same lane with
\* vehicle class length <= dist_along < lane length, and schedule_trip accepts a
\* CarAppearing intent at that position without panicking.
C5_SpawnPositionFits ==
    spawn_in # None =>
        /\ pc # "panicked"
        /\ spawn_out # None =>
              LET in == Unwrap(spawn_in)
                  out == Unwrap(spawn_out)
                  class_len == IF in.is_bike THEN BIKE_LENGTH ELSE MAX_CAR_LENGTH
              IN  \/ out = None
                  \/ /\ Unwrap(out).lane = in.pos.lane
                     /\ class_len <= Unwrap(out).dist_along
                     /\ 0 <= Unwrap(out).dist_along
                     /\ Unwrap(out).dist_along < LaneLength(in.pos.lane)

\* a position at the lane's end was moved back by EPSILON_DIST and then accepted
C5_Witness ==
    /\ spawn_in # None
    /\ spawn_out # None
    /\ Unwrap(spawn_in).pos.dist_along = LaneLength(Unwrap(spawn_in).pos.lane)
    /\ Unwrap(spawn_out) =
          Some(Position(Unwrap(spawn_in).pos.lane,
                        LaneLength(Unwrap(spawn_in).pos.lane) - EPSILON_DIST))
    /\ trips # <<>>
    /\ trips[1].spec.start_pos = Unwrap(Unwrap(spawn_out))

\* the entry a call appends when it buffers its intent unchanged
CallEntry(c) == [person |-> c.person, start_time |-> c.start_time, spec |-> c.spec]

\* C6: a schedule_trip call with a JustWalking intent whose start spot equals its
\* goal spot panics and appends nothing; with start # goal the intent is
\* appended unchanged.
C6_JustWalkingChecked ==
    [][(CallStep /\ Unwrap(call').spec.kind = "JustWalking") =>
          IF Unwrap(call').spec.start = Unwrap(call').spec.goal
          THEN pc' = "panicked" /\ trips' = trips
          ELSE pc' = pc /\ trips' = Append(trips, CallEntry(Unwrap(call')))]_vars

\* a walk was buffered, then a call with a walk from a spot to itself panicked
C6_Witness ==
    /\ pc = "panicked"
    /\ call # None
    /\ Unwrap(call).spec.kind = "JustWalking"
    /\ Unwrap(call).spec.start = Unwrap(call).spec.goal
    /\ Len(trips) = 1
    /\ trips[1].spec.kind = "JustWalking"
    /\ trips[1].spec.start # trips[1].spec.goal

\* the walking intent a bike intent to ParkNear(b) is rewritten to
WalkToBuilding(c) ==
    [person |-> c.person,
     start_time |-> c.start_time,
     spec |-> [kind |-> "JustWalking",
               start |-> c.spec.start,
               goal |-> SidewalkSpotBuilding(c.spec.goal.b),
               ped_speed |-> c.spec.ped_speed]]

\* a UsingBike intent to ParkNear(b) starting on b's sidewalk lane
BikeToOwnSidewalk(spec) ==
    /\ spec.kind = "UsingBike"
    /\ spec.goal.kind = "ParkNear"
    /\ spec.start.sidewalk_pos.lane = BuildingSidewalk(spec.goal.b)

\* the start lane has a bike-access point and the lane of the bike-mode goal
\* position has an adjacent sidewalk
BikeEndsReachable(spec) ==
    /\ IsSome(BikeFromBikeRack(spec.start.sidewalk_pos.lane))
    /\ IsSome(BikeToSidewalk(GoalPos(spec.goal, "Bike").lane))

\* C7 as stated: every schedule_trip call with a UsingBike intent to ParkNear(b)
\* that starts on b's sidewalk lane buffers exactly one entry, the walking intent.
C7_EveryBikeToOwnSidewalkWalks ==
    [][(CallStep /\ BikeToOwnSidewalk(Unwrap(call').spec)) =>
          (pc' = pc /\ trips' = Append(trips, WalkToBuilding(Unwrap(call'))))]_vars

\* C7 amended: a schedule_trip call with a UsingBike intent to ParkNear(b) that
\* starts on b's sidewalk lane, whose start lane has a bike-access point and
\* whose bike-mode goal lane has an adjacent sidewalk, buffers exactly one
\* entry, the JustWalking intent with the same person, start time, start spot
\* and ped speed and with goal b's sidewalk spot; no UsingBike intent to its own
\* sidewalk is ever buffered, and the command finalize pushes for a JustWalking
\* entry carries that intent with a trip of a single Walk leg to its goal.
C7_ReachableBikeToOwnSidewalkWalks ==
    /\ [][(/\ CallStep
           /\ BikeToOwnSidewalk(Unwrap(call').spec)
           /\ BikeEndsReachable(Unwrap(call').spec))
          => (pc' = pc /\ trips' = Append(trips, WalkToBuilding(Unwrap(call'))))]_vars
    /\ [](\A k \in DOMAIN trips : ~BikeToOwnSidewalk(trips[k].spec))
    /\ [](\A k \in DOMAIN scheduler :
              drained[k].spec.kind = "JustWalking" =>
                  /\ scheduler[k].cmd.spec = drained[k].spec
                  /\ Len(trip_manager[k].legs) = 1
                  /\ trip_manager[k].legs[1].kind = "Walk"
                  /\ trip_manager[k].legs[1].spot = drained[k].spec.goal)

\* finalize pushed the command of a walk that starts where someone suddenly
\* appeared: only a rewritten bike intent gives such a walk
C7_Witness ==
    /\ pc = "done"
    /\ \E k \in DOMAIN scheduler :
          /\ scheduler[k].cmd.spec.kind = "JustWalking"
          /\ scheduler[k].cmd.spec.start.connection.kind = "SuddenlyAppear"
          /\ scheduler[k].cmd.spec.goal = SidewalkSpotBuilding("B1")
          /\ Len(trip_manager[k].legs) = 1

\* a UsingBike intent whose start lane has no bike-access point
BikeWithoutAccess(spec) ==
    /\ spec.kind = "UsingBike"
    /\ BikeFromBikeRack(spec.start.sidewalk_pos.lane) = None

\* C8: a schedule_trip call with a UsingBike intent whose start lane has no
\* bike-access point returns normally and leaves the buffer as it was, so that
\* no such intent is buffered, drained, registered as a trip or pushed.
C8_BikeWithoutAccessDropped ==
    /\ [][(CallStep /\ BikeWithoutAccess(Unwrap(call').spec))
          => (pc' = pc /\ trips' = trips)]_vars
    /\ [](/\ \A k \in DOMAIN trips : ~BikeWithoutAccess(trips[k].spec)
          /\ \A k \in DOMAIN drained : ~BikeWithoutAccess(drained[k].spec)
          /\ \A k \in DOMAIN scheduler : ~BikeWithoutAccess(scheduler[k].cmd.spec)
          /\ Len(trip_manager) = Len(scheduler))

\* the call returned with another intent still in the buffer
C8_Witness ==
    /\ pc = "submit"
    /\ call # None
    /\ BikeWithoutAccess(Unwrap(call).spec)
    /\ Len(trips) = 1

\* C9: the trip finalize registers for a UsingTransit entry with route R, stops
\* S1 and S2 and goal G has exactly three legs: Walk to the sidewalk spot of S1,
\* RideBus(R, S2), Walk to G.
C9_TransitLegs ==
    \A k \in DOMAIN drained :
        drained[k].spec.kind = "UsingTransit" =>
            /\ pc = "done" => k \in DOMAIN trip_manager
            /\ k \in DOMAIN trip_manager =>
                  LET legs == trip_manager[k].legs
                      spec == drained[k].spec
                  IN  /\ Len(legs) = 3
                      /\ legs[1].kind = "Walk"
                      /\ legs[1].spot = SidewalkSpotBusStop(spec.stop1)
                      /\ legs[2].kind = "RideBus"
                      /\ legs[2].route = spec.route
                      /\ legs[2].stop = spec.stop2
                      /\ legs[3].kind = "Walk"
                      /\ legs[3].spot = spec.goal

\* finalize returned with the trip of a transit entry registered
C9_Witness ==
    /\ pc = "done"
    /\ \E k \in DOMAIN trip_manager :
          /\ drained[k].spec.kind = "UsingTransit"
          /\ Len(trip_manager[k].legs) = 3

\* C10: the command finalize pushes for a CarAppearing entry is its only one,
\* carries a present request from start_pos to the goal's position under the
\* vehicle type's constraint, and its trip starts with a Drive leg: the single
\* Drive leg for a Border goal, Drive then one Walk to the building's sidewalk
\* spot exactly for a ParkNear goal.
C10_CarAppearingCommand ==
    \A k \in DOMAIN drained :
        drained[k].spec.kind = "CarAppearing" =>
            /\ pc = "done" =>
                  Cardinality({j \in DOMAIN scheduler : scheduler[j].cmd.trip = k - 1}) = 1
            /\ k \in DOMAIN scheduler =>
                  LET legs == trip_manager[k].legs
                      spec == drained[k].spec
                      constraints == IF spec.vehicle_spec.vehicle_type = "Car"
                                     THEN "Car" ELSE "Bike"
                  IN  /\ scheduler[k].cmd.trip = trip_manager[k].id
                      /\ scheduler[k].cmd.spec = spec
                      /\ scheduler[k].cmd.maybe_req =
                            Some([start |-> spec.start_pos,
                                  end |-> GoalPos(spec.goal, constraints),
                                  constraints |-> constraints])
                      /\ legs[1].kind = "Drive"
                      /\ legs[1].goal = spec.goal
                      /\ legs[1].vehicle.vehicle_type = spec.vehicle_spec.vehicle_type
                      /\ spec.goal.kind = "Border" => Len(legs) = 1
                      /\ spec.goal.kind = "ParkNear" =>
                            /\ Len(legs) = 2
                            /\ legs[2].kind = "Walk"
                            /\ legs[2].spot = SidewalkSpotBuilding(spec.goal.b)

\* finalize returned with a car to a border and a car to a building
C10_Witness ==
    /\ pc = "done"
    /\ Len(scheduler) = 2
    /\ drained[1].spec.kind = "CarAppearing"
    /\ drained[1].spec.goal.kind = "Border"
    /\ drained[2].spec.kind = "CarAppearing"
    /\ drained[2].spec.goal.kind = "ParkNear"
    /\ Len(trip_manager[2].legs) = 2

\* what the claim says get_pathfinding_request returns for an intent
RequestAsClaimed(spec, req) ==
    CASE spec.kind = "UsingParkedCar" -> req = None
      [] spec.kind = "JustWalking" ->
            req = Some([start |-> spec.start.sidewalk_pos,
                        end |-> spec.goal.sidewalk_pos,
                        constraints |-> "Pedestrian"])
      [] spec.kind = "UsingBike" ->
            /\ IsSome(BikeFromBikeRack(spec.start.sidewalk_pos.lane))
            /\ req = Some([start |-> spec.start.sidewalk_pos,
                           end |-> Unwrap(BikeFromBikeRack(
                                       spec.start.sidewalk_pos.lane)).sidewalk_pos,
                           constraints |-> "Pedestrian"])
      [] spec.kind = "UsingTransit" ->
            req = Some([start |-> spec.start.sidewalk_pos,
                        end |-> SidewalkSpotBusStop(spec.stop1).sidewalk_pos,
                        constraints |-> "Pedestrian"])
      [] spec.kind = "CarAppearing" ->
            /\ IsSome(req)
            /\ Unwrap(req).start = spec.start_pos
            /\ Unwrap(req).constraints = spec.vehicle_spec.vehicle_type
            /\ Unwrap(req).end = GoalPos(spec.goal, spec.vehicle_spec.vehicle_type)

\* C11: the request derived for an entry is absent for UsingParkedCar and
\* present for the other four variants; it is a Pedestrian request from the
\* start to the goal for JustWalking, from the start to the bike-access point
\* for UsingBike and from the start to the boarding stop for UsingTransit, and
\* a request under the vehicle type's constraint for CarAppearing; and the step
\* that derives it changes nothing but the result of that entry.
C11_RequestPerVariant ==
    /\ [](\A i \in DOMAIN results :
            results[i] # None =>
                RequestAsClaimed(drained[i].spec, Unwrap(results[i]).req))
    /\ [](\A k \in DOMAIN scheduler :
            RequestAsClaimed(scheduler[k].cmd.spec, scheduler[k].cmd.maybe_req))
    /\ [][(pc = "resolving" /\ pc' = "resolving")
            => /\ UNCHANGED <<trips, drained, paths, trip_manager, scheduler>>
               /\ \E i \in DOMAIN results :
                      \A j \in DOMAIN results : j # i => results'[j] = results[j]]_vars

\* both workers have answered: no request for the parked car, a walk to the
\* bike-access point for the bike
C11_Witness ==
    /\ pc = "resolving"
    /\ Len(drained) = 2
    /\ results[1] # None /\ results[2] # None
    /\ drained[1].spec.kind = "UsingParkedCar"
    /\ Unwrap(results[1]).req = None
    /\ drained[2].spec.kind = "UsingBike"
    /\ IsSome(Unwrap(results[2]).req)
    /\ Unwrap(Unwrap(results[2]).req).end # GoalPos(drained[2].spec.goal, "Bike")

\* C12: while the workers of the parallel phase run, no trip is registered and
\* no command is pushed; the first trip is registered and the first command
\* pushed only after every entry has its result, the results then being held
\* in input order with one per drained entry.
C12_ParallelPhaseFirst ==
    /\ pc = "resolving" => trip_manager = <<>> /\ scheduler = <<>>
    /\ (trip_manager # <<>> \/ scheduler # <<>>) =>
            /\ results = <<>>
            /\ Len(scheduler) + Len(paths) = Len(drained)
            /\ Len(trip_manager) = Len(scheduler)

\* one worker has answered and the other has not, and nothing is spawned yet
C12_Witness ==
    /\ pc = "resolving"
    /\ Len(drained) = 2
    /\ results[2] # None
    /\ results[1] = None
    /\ trip_manager = <<>>
    /\ scheduler = <<>>

\* C13: a schedule_trip call appends at most one entry at the end of the buffer
\* and leaves the entries already buffered as they were, in their order; no
\* call registers a trip or pushes a command, so both stay empty until finalize.
C13_SubmissionOnlyAppends ==
    /\ [][CallStep =>
            /\ Len(trips') \in {Len(trips), Len(trips) + 1}
            /\ SubSeq(trips', 1, Len(trips)) = trips
            /\ UNCHANGED <<trip_manager, scheduler>>]_vars
    /\ [](pc = "submit" => trip_manager = <<>> /\ scheduler = <<>>)

\* a bike intent to the own sidewalk was submitted after another entry and the
\* buffer grew by the one walking entry
C13_Witness ==
    /\ pc = "submit"
    /\ call # None
    /\ Unwrap(call).spec.kind = "UsingBike"
    /\ Len(trips) = 2
    /\ trips[1].spec.kind = "CarAppearing"
    /\ trips[2].spec.kind = "JustWalking"
    /\ trips[2].person = Unwrap(call).person
    /\ trip_manager = <<>>
    /\ scheduler = <<>>

\* C14: the k-th StartTrip command is pushed at the start time of the k-th
\* drained entry, names a trip registered with that entry's person and start
\* time, and carries that entry's intent as buffered with the request and the
\* path computed for that same entry.
C14_CommandMatchesEntry ==
    \A k \in DOMAIN scheduler :
        LET cmd == scheduler[k].cmd
            entry == drained[k]
        IN  /\ scheduler[k].time = entry.start_time
            /\ cmd.kind = "StartTrip"
            /\ cmd.trip + 1 \in DOMAIN trip_manager
            /\ trip_manager[cmd.trip + 1].id = cmd.trip
            /\ trip_manager[cmd.trip + 1].person = entry.person
            /\ trip_manager[cmd.trip + 1].start_time = entry.start_time
            /\ cmd.spec = entry.spec
            /\ cmd.maybe_req = RequestOf(entry.spec)
            /\ cmd.maybe_path = RouteOf(entry.spec)

\* two commands pushed for entries of different persons, start times and
\* requests, the later one first, the first with a path and the second without
C14_Witness ==
    /\ pc = "done"
    /\ Len(scheduler) = 2
    /\ scheduler[1].time > scheduler[2].time
    /\ drained[1].person # drained[2].person
    /\ scheduler[1].cmd.maybe_req # scheduler[2].cmd.maybe_req
    /\ IsSome(scheduler[1].cmd.maybe_path)
    /\ IsSome(scheduler[2].cmd.maybe_req)
    /\ ~IsSome(scheduler[2].cmd.maybe_path)

\* C15: a schedule_trip call with a UsingBike intent whose start lane has a
\* bike-access point, whose goal is ParkNear(b) and whose bike-mode goal lane
\* has no adjacent sidewalk returns normally and leaves the buffer unchanged,
\* also when the start lane is the sidewalk lane of b.
C15_BikeWithoutGoalSidewalkDropped ==
    [][(/\ CallStep
        /\ Unwrap(call').spec.kind = "UsingBike"
        /\ IsSome(BikeFromBikeRack(Unwrap(call').spec.start.sidewalk_pos.lane))
        /\ Unwrap(call').spec.goal.kind = "ParkNear"
        /\ ~IsSome(BikeToSidewalk(GoalPos(Unwrap(call').spec.goal, "Bike").lane)))
       => pc' = pc /\ trips' = trips]_vars

\* after one entry was buffered, a bike intent to a building on the start
\* sidewalk whose bike goal lane has no sidewalk was submitted and dropped
C15_Witness ==
    /\ pc = "submit"
    /\ call # None
    /\ Unwrap(call).spec.kind = "UsingBike"
    /\ IsSome(BikeFromBikeRack(Unwrap(call).spec.start.sidewalk_pos.lane))
    /\ Unwrap(call).spec.goal.kind = "ParkNear"
    /\ ~IsSome(BikeToSidewalk(GoalPos(Unwrap(call).spec.goal, "Bike").lane))
    /\ Unwrap(call).spec.start.sidewalk_pos.lane = BuildingSidewalk(Unwrap(call).spec.goal.b)
    /\ Len(trips) = 1
    /\ trips[1].spec.kind = "UsingParkedCar"

\* the legs the claim gives the trip of the k-th drained entry, a UsingBike one
BikeLegsAsClaimed(k) ==
    LET legs == trip_manager[k].legs
        spec == drained[k].spec
    IN  /\ Len(legs) = IF spec.goal.kind = "ParkNear" THEN 3 ELSE 2
        /\ legs[1].kind = "Walk"
        /\ legs[1].spot = Unwrap(BikeFromBikeRack(spec.start.sidewalk_pos.lane))
        /\ legs[2].kind = "Drive"
        /\ legs[2].vehicle.vehicle_type = "Bike"
        /\ legs[2].goal = spec.goal
        /\ spec.goal.kind = "ParkNear" =>
              /\ legs[3].kind = "Walk"
              /\ legs[3].spot = SidewalkSpotBuilding(spec.goal.b)

\* the loop of finalize stopped at a UsingBike entry of a registered person
\* whose start spot has one of the three handled connection kinds
AbortedAtBikeEntry ==
    /\ pc = "panicked"
    /\ paths # <<>>
    /\ Head(paths).tuple.spec.kind = "UsingBike"
    /\ IsSome(GetPerson(Head(paths).tuple.person))
    /\ ~StartUnreachable(Head(paths).tuple.spec.start)

\* C16 as stated: the trip of a UsingBike entry has the legs Walk to the
\* bike-access point, Drive with a bike vehicle to the goal and a final Walk
\* exactly for ParkNear, and its expansion does not depend on the person
\* having a bike id: finalize never stops at such an entry.
C16_BikeLegsWithoutLookup ==
    /\ \A k \in DOMAIN trip_manager :
          drained[k].spec.kind = "UsingBike" => BikeLegsAsClaimed(k)
    /\ ~AbortedAtBikeEntry

\* C16: the trip of a UsingBike entry has the legs Walk to the bike-access
\* point, Drive with a bike vehicle to the goal and a final Walk exactly for
\* ParkNear; the bike vehicle carries the bike id of the person's record and
\* no owner, no UsingBike entry of a person without a bike id gets a trip, and
\* finalize stops at a UsingBike entry only when the person has no bike id.
C16_BikeLegsWithPersonBike ==
    /\ \A k \in DOMAIN trip_manager :
          drained[k].spec.kind = "UsingBike" =>
              LET person == Unwrap(GetPerson(drained[k].person))
              IN  /\ BikeLegsAsClaimed(k)
                  /\ IsSome(person.bike)
                  /\ trip_manager[k].legs[2].vehicle.id = Unwrap(person.bike)
                  /\ trip_manager[k].legs[2].vehicle.owner = None
                  /\ trip_manager[k].legs[2].vehicle.length = drained[k].spec.vehicle.length
    /\ AbortedAtBikeEntry =>
          ~IsSome(Unwrap(GetPerson(Head(paths).tuple.person)).bike)

\* the bike trip of a person with a bike id was registered with its three
\* legs, then finalize stopped at the bike entry of a person without one
C16_Witness ==
    /\ AbortedAtBikeEntry
    /\ Len(trip_manager) = 1
    /\ drained[1].spec.kind = "UsingBike"
    /\ drained[1].spec.goal.kind = "ParkNear"
    /\ Len(trip_manager[1].legs) = 3
    /\ drained[2].spec.kind = "UsingBike"
    /\ ~IsSome(Unwrap(GetPerson(drained[2].person)).bike)

\* C17: in finalize a JustWalking, UsingBike or UsingTransit entry whose start
\* spot has a connection kind other than Building, Border and SuddenlyAppear
\* stops the run: neither that entry nor a later one gets a trip or a command
\* and finalize never returns; a trip registered for an entry with one of the
\* three kinds starts at that building, at that intersection, or at the source
\* intersection of the start lane.
C17_StartConnectionKinds ==
    \A k \in DOMAIN drained :
        LET spec == drained[k].spec
        IN  spec.kind \in {"JustWalking", "UsingBike", "UsingTransit"} =>
                /\ spec.start.connection.kind \notin {"Building", "Border", "SuddenlyAppear"} =>
                      /\ Len(trip_manager) < k
                      /\ Len(scheduler) < k
                      /\ pc # "done"
                /\ k \in DOMAIN trip_manager =>
                      trip_manager[k].start =
                          CASE spec.start.connection.kind = "Building" ->
                                  [kind |-> "Bldg", b |-> spec.start.connection.b]
                            [] spec.start.connection.kind = "Border" ->
                                  [kind |-> "Border", i |-> spec.start.connection.i]
                            [] spec.start.connection.kind = "SuddenlyAppear" ->
                                  [kind |-> "Border",
                                   i |-> LaneSrcI(spec.start.sidewalk_pos.lane)]

\* finalize stopped at its first entry, a transit intent starting at a bus
\* stop: the walk from a building behind it got no trip and no command either
C17_Witness ==
    /\ pc = "panicked"
    /\ Len(drained) = 2
    /\ Len(paths) = 2
    /\ drained[1].spec.kind = "UsingTransit"
    /\ drained[1].spec.start.connection.kind = "BusStop"
    /\ drained[2].spec.kind = "JustWalking"
    /\ drained[2].spec.start.connection.kind = "Building"
    /\ trip_manager = <<>>
    /\ scheduler = <<>>

\* C18: every JustWalking intent in the buffer, and so every one finalize
\* processes, has a start spot different from its goal spot, the walking
\* intents that UsingBike intents are rewritten to included.
C18_BufferedWalksMove ==
    /\ \A k \in DOMAIN trips :
          trips[k].spec.kind = "JustWalking" => trips[k].spec.start # trips[k].spec.goal
    /\ \A k \in DOMAIN drained :
          drained[k].spec.kind = "JustWalking" => drained[k].spec.start # drained[k].spec.goal

\* C19: every UsingBike intent in the buffer, and so every one finalize drains,
\* has a bike-access point for its start sidewalk lane: no worker stops at the
\* unwrap in get_pathfinding_request and the loop of finalize never stops at
\* the unwrap of its UsingBike arm.
C19_BufferedBikesHaveAccess ==
    /\ \A k \in DOMAIN trips :
          trips[k].spec.kind = "UsingBike" =>
              IsSome(BikeFromBikeRack(trips[k].spec.start.sidewalk_pos.lane))
    /\ \A k \in DOMAIN drained :
          drained[k].spec.kind = "UsingBike" =>
              IsSome(BikeFromBikeRack(drained[k].spec.start.sidewalk_pos.lane))
    /\ pc = "panicked" => results = <<>>
    /\ (pc = "panicked" /\ paths # <<>> /\ Head(paths).tuple.spec.kind = "UsingBike") =>
          IsSome(BikeFromBikeRack(Head(paths).tuple.spec.start.sidewalk_pos.lane))

\* finalize returned after both unwraps succeeded for two bike entries
C19_Witness ==
    /\ pc = "done"
    /\ Len(scheduler) = 2
    /\ drained[1].spec.kind = "UsingBike"
    /\ drained[2].spec.kind = "UsingBike"
    /\ drained[1].spec.goal.kind = "Border"
    /\ drained[2].spec.goal.kind = "ParkNear"
    /\ trip_manager[1].legs[1].spot.connection.kind = "BikeRack"
    /\ IsSome(scheduler[2].cmd.maybe_req)

\* C20: in every StartTrip command a present path comes with a present
\* request, and the command of a UsingParkedCar entry has neither; the same
\* holds of every worker's result, an absent request giving an absent path.
C20_PathNeedsRequest ==
    /\ \A k \in DOMAIN scheduler :
          LET cmd == scheduler[k].cmd
          IN  /\ IsSome(cmd.maybe_path) => IsSome(cmd.maybe_req)
              /\ cmd.spec.kind = "UsingParkedCar" =>
                    cmd.maybe_req = None /\ cmd.maybe_path = None
    /\ \A i \in DOMAIN results :
          results[i] # None =>
              /\ Unwrap(results[i]).req = None => Unwrap(results[i]).path = None
              /\ drained[i].spec.kind = "UsingParkedCar" =>
                    Unwrap(results[i]).req = None /\ Unwrap(results[i]).path = None

\* finalize returned with the command of a parked-car entry, without request
\* and path, and a command with both
C20_Witness ==
    /\ pc = "done"
    /\ Len(scheduler) = 2
    /\ scheduler[1].cmd.spec.kind = "UsingParkedCar"
    /\ scheduler[1].cmd.maybe_req = None
    /\ scheduler[1].cmd.maybe_path = None
    /\ IsSome(scheduler[2].cmd.maybe_req)
    /\ IsSome(scheduler[2].cmd.maybe_path)

====
